---- MODULE Spec2Model ----
(***************************************************************************)
(* Model of skxray/correlation.py: the multi-tau one-time correlation      *)
(* auto_corr, its per-level update _process and the ROI preprocessor       *)
(* _get_roi_info.                                                          *)
(*                                                                         *)
(* Arrays keep the 0-based indices of the code: an array of length n is a  *)
(* function on 0..n-1.  float64 values are modelled as exact rationals     *)
(* <<numerator, denominator>>; 0/0 is NaN and x/0 is Inf, as numpy gives.  *)
(* The code computes (num_levels + 1)*num_bufs/2 and level*num_bufs/2 + i  *)
(* with true division; num_bufs is even there, so the values are integral  *)
(* and are modelled as integers (the numpy of the code's time accepted     *)
(* integral floats as shapes and indices).                                 *)
(***************************************************************************)
EXTENDS Integers, Sequences, FiniteSets

(* ------------------------------ bounds --------------------------------- *)
MaxLevels == 3
MaxBufs == 4
\* frames of a stack whose frames are chosen freely
MaxFrames == 6
\* frames of a stack that repeats a pattern of constant frames
MaxPatternFrames == 16
MaxLabel == 3

\* pixel intensities the enumerated frames use
PixelValues == {1, 2}
\* shape of the enumerated ROI label grids, and shapes of the frames
GridShapes == {<<1, 2>>}
FrameShapes == {<<1, 2>>, <<2, 1>>, <<1, 1>>}

(* ----------------------------- rationals ------------------------------- *)
RECURSIVE GCD(_, _)
GCD(a, b) == IF b = 0 THEN a ELSE GCD(b, a % b)

Abs(x) == IF x < 0 THEN -x ELSE x

NaN == <<0, 0>>

\* n/d in lowest terms with d > 0; d = 0 gives NaN (n = 0) or a signed Inf
Rat(n, d) ==
    IF d = 0 THEN (IF n = 0 THEN NaN ELSE IF n > 0 THEN <<1, 0>> ELSE <<-1, 0>>)
    ELSE LET g == GCD(Abs(n), Abs(d))
             s == IF d < 0 THEN -1 ELSE 1
         IN  <<(s * n) \div g, (s * d) \div g>>

R(k) == <<k, 1>>
RAdd(x, y) == Rat(x[1] * y[2] + y[1] * x[2], x[2] * y[2])
RSub(x, y) == Rat(x[1] * y[2] - y[1] * x[2], x[2] * y[2])
RMul(x, y) == Rat(x[1] * y[1], x[2] * y[2])
RDiv(x, y) == Rat(x[1] * y[2], x[2] * y[1])

Min(a, b) == IF a < b THEN a ELSE b

RECURSIVE Pow2(_)
Pow2(k) == IF k = 0 THEN 1 ELSE 2 * Pow2(k - 1)

\* a[i] with Python's negative indexing on an array of length len
PyIndex(i, len) == IF i < 0 THEN i + len ELSE i

(* ------------------------------ inputs --------------------------------- *)
Size(shape) == shape[1] * shape[2]

\* the label grids: every assignment of a label 0..MaxLabel to every cell;
\* data is the grid in row-major order (np.ravel)
Grids ==
    UNION {{[shape |-> s, data |-> d] : d \in [1 .. Size(s) -> 0 .. MaxLabel]} :
           s \in GridShapes}

\* the optional exclusion mask: None, or one boolean per grid cell
NoMask == [given |-> FALSE, data |-> <<>>]
Masks(ind) ==
    {NoMask} \cup {[given |-> TRUE, data |-> d] : d \in [1 .. Size(ind.shape) -> BOOLEAN]}

\* frames of one shape (raveled): a ramp 1,2,1,.. and the constant frames
RampFrame(shape) == [k \in 1 .. Size(shape) |-> 1 + ((k - 1) % 2)]
ConstFrame(shape, c) == [k \in 1 .. Size(shape) |-> c]

\* The stacks enumerated.  A free stack (pattern <<>>) has up to MaxFrames
\* frames, each the ramp or a constant frame brighter than 1, and the shape
\* of the grid.  A pattern stack has up to MaxPatternFrames constant frames
\* whose values repeat the pattern, and any of the frame shapes.
FreeFrames(shape) ==
    {RampFrame(shape)} \cup {ConstFrame(shape, c) : c \in PixelValues \ {1}}
Patterns ==
    {<<c>> : c \in PixelValues} \cup
    {p \in PixelValues \X PixelValues : p[1] # p[2]}
PatternFrame(shape, pat, k) == ConstFrame(shape, pat[1 + (k % Len(pat))])

VARIABLES
    pc,          \* "idle", "loop" (inside the for loop), "done", "raised"
    err,         \* the exception raised, "" when none
    num_levels, num_bufs, indices, img_shape, mask,   \* the arguments
    pattern,     \* the pattern img_stack repeats, <<>> for a free stack
    q_inds, num_qs, num_pixels, pixel_list,           \* _get_roi_info's results
    G, IAP, IAF, buf, cts, cur, num,                 \* auto_corr's locals
    n,           \* frames consumed so far
    g2, lag_steps,                                    \* the returned values
    written,     \* history: per level, the values written to its buffer
    upd,         \* history: per accumulator row, the updates it received
    rowsrc,      \* history: per accumulator row, the <<level, offset>> updating it
    wslots,      \* history: per level, the slot of each write, in order
    owner,       \* history: per level and slot, the arrival that wrote it last
    calls,       \* log of the last frame: the invocations of _process
    updates,     \* log of the last frame: the accumulator updates
    iters        \* log of the last frame: the levels the while loop examined,
                 \* each with the flag it found there

args == <<num_levels, num_bufs, indices, img_shape, mask, pattern>>
roi == <<q_inds, num_qs, num_pixels, pixel_list>>
locals == <<G, IAP, IAF, buf, cts, cur, num>>
history == <<written, upd, rowsrc, wslots, owner, calls, updates, iters>>
vars == <<pc, err, args, roi, locals, n, g2, lag_steps, history>>

\* the value of a local that has not been created
Unset == <<>>

(* ------------------------- _get_roi_info ------------------------------- *)
\* mutant: the number of ROIs taken from the first label met
SeqMax_first(s) == s[1]

RECURSIVE SeqMax(_)
\* np.max(roi_inds)
SeqMax(s) ==
    IF Len(s) = 1 THEN s[1]
    ELSE LET m == SeqMax(Tail(s)) IN IF s[1] > m THEN s[1] ELSE m

\* np.bincount(x, minlength)[1:] on integers: entry r counts the r's of x
BinCount(x, minlength) ==
    LET len == IF Len(x) = 0 THEN minlength
               ELSE IF SeqMax(x) + 1 > minlength THEN SeqMax(x) + 1
               ELSE minlength
    IN  [r \in 1 .. len - 1 |-> Cardinality({j \in 1 .. Len(x) : x[j] = r})]

\* w = np.where(np.ravel(roi_inds) > 0): the positions, ascending
WherePositive(flat) ==
    LET Pos(k) == flat[k] > 0
    IN  SelectSeq([k \in 1 .. Len(flat) |-> k], Pos)

\* np.ravel(grid[0]*img_dim[1] + grid[1])[w]: the flat index of each cell of w
PixelList(img_dim, w) ==
    [j \in 1 .. Len(w) |->
        ((w[j] - 1) \div img_dim[2]) * img_dim[2] + ((w[j] - 1) % img_dim[2])]

\* roi_inds[roi_inds > 0]
DiscardZeros(flat) == LET Pos(v) == v > 0 IN SelectSeq(flat, Pos)

\* ok = FALSE: np.max of an empty array raises ValueError
_get_roi_info(roi_inds) ==
    LET img_dim == roi_inds.shape
        w == WherePositive(roi_inds.data)
        plist == PixelList(img_dim, w)
        rinds == DiscardZeros(roi_inds.data)
    IN  IF Len(rinds) = 0
        THEN [ok |-> FALSE, q_inds |-> rinds, num_qs |-> 0,
              num_pixels |-> <<>>, pixel_list |-> plist]
        ELSE LET num_rois == SeqMax(rinds)
             IN  [ok |-> TRUE, q_inds |-> rinds, num_qs |-> num_rois,
                  num_pixels |-> BinCount(rinds, num_rois + 1),
                  pixel_list |-> plist]

(* ----------------------------- _process -------------------------------- *)
\* elementwise operations on pixel-aligned vectors
VMul(a, b) == [j \in 1 .. Len(a) |-> RMul(a[j], b[j])]
VAvg(a, b) == [j \in 1 .. Len(a) |-> RDiv(RAdd(a[j], b[j]), R(2))]

RECURSIVE WeightSum(_, _, _, _)
\* the sum of weights[j] over the j <= k with q_inds[j] = r
WeightSum(qinds, weights, r, k) ==
    IF k = 0 THEN R(0)
    ELSE IF qinds[k] = r
         THEN RAdd(WeightSum(qinds, weights, r, k - 1), weights[k])
         ELSE WeightSum(qinds, weights, r, k - 1)

\* np.bincount(q_inds, weights=...)[1:] / num_pixels: the per-ROI mean
RoiMean(qinds, nqs, npix, weights) ==
    [r \in 1 .. nqs |->
        RDiv(WeightSum(qinds, weights, r, Len(qinds)), R(npix[r]))]

\* acc += (new - acc)/k, elementwise over the ROIs
RunningAverage(acc, new, k) ==
    [r \in DOMAIN acc |-> RAdd(acc[r], RDiv(RSub(new[r], acc[r]), R(k)))]

\* mutant: every level correlates from offset 0
IMin_zero(level, B) == 0

\* the first offset a level correlates
IMin(level, B) == IF level = 0 THEN 0 ELSE B \div 2

\* mutant: the levels above 0 packed directly after each other's half
TIndex_packed(level, B, i) ==
    IF level = 0 THEN i ELSE (level * B) \div 2 + i - (B \div 2)

\* the flat tau slot of offset i at a level
TIndex(level, B, i) == (level * B) \div 2 + i

\* mutant: the lag partner looked up ahead of the current slot
DelayNo_ahead(buf_no, i, B) == (buf_no + i) % B

\* the slot holding the value i arrivals before the one in buf_no
DelayNo(buf_no, i, B) == (buf_no - i) % B

\* mutant: the running average counts one update too many
Divisor_next(arrivals, i) == arrivals - i + 1

\* mutant: the running average divides by the arrivals, not by its own count
Divisor_arrivals(arrivals, i) == arrivals

\* the divisor of the running average of offset i
Divisor(arrivals, i) == arrivals - i

RECURSIVE ProcessLoop(_, _, _, _, _, _, _, _, _)
\* the body of "for i in range(i, hi)" of _process
ProcessLoop(st, qinds, nqs, B, npix, level, buf_no, i, hi) ==
    IF i >= hi THEN st
    ELSE
      LET t_index == TIndex(level, B, i)
          delay_no == DelayNo(buf_no, i, B)
          IP == st.buf[level][delay_no]
          IF_ == st.buf[level][PyIndex(buf_no, B)]
          k == Divisor(st.num[level], i)
          st1 == [st EXCEPT
                    !.G[t_index] =
                        RunningAverage(@, RoiMean(qinds, nqs, npix, VMul(IP, IF_)), k),
                    !.IAP[t_index] =
                        RunningAverage(@, RoiMean(qinds, nqs, npix, IP), k),
                    !.IAF[t_index] =
                        RunningAverage(@, RoiMean(qinds, nqs, npix, IF_), k),
                    !.upd[t_index] = @ + 1,
                    !.rowsrc[t_index] = @ \cup {<<level, i>>},
                    !.updates = Append(@,
                        [level |-> level, i |-> i, t_index |-> t_index,
                         delay_no |-> delay_no, divisor |-> k,
                         arrival |-> st.num[level],
                         source |-> st.owner[level][delay_no],
                         count |-> IF t_index \in DOMAIN st.upd
                                   THEN st.upd[t_index] + 1 ELSE 0])]
      IN  ProcessLoop(st1, qinds, nqs, B, npix, level, buf_no, i + 1, hi)

\* mutant: the arrival is not counted
NextNum_same(c) == c

\* "num[level] += 1"
NextNum(c) == c + 1

\* what an invocation of _process could change besides G, IAP and IAF
Snapshot(st) == [buf |-> st.buf, cts |-> st.cts, cur |-> st.cur, num |-> st.num]

_process(st, qinds, nqs, B, npix, level, buf_no) ==
    LET st1 == [st EXCEPT !.num[level] = NextNum(@)]
        st2 == ProcessLoop(st1, qinds, nqs, B, npix, level, buf_no,
                           IMin(level, B), Min(st1.num[level], B))
    IN  [st2 EXCEPT !.calls = Append(@,
            [level |-> level, buf_no |-> buf_no,
             before |-> Snapshot(st), after |-> Snapshot(st2)])]

(* ----------------------------- auto_corr ------------------------------- *)
\* mutant: the parity test inverted
OddBufs_inverted(B) == B % 2 = 0

\* "if num_bufs%2 != 0: raise ValueError"
OddBufs(B) == B % 2 # 0

\* "if indices.shape == img_stack[0].shape[1:]: raise ValueError"; a frame
\* img_stack[0] has the 2D shape frame_shape, and [1:] drops its first entry
ShapeRaises(ind_shape, frame_shape) == ind_shape = Tail(frame_shape)

\* mutant: only the first ROI's pixel count is tested
AnyZero_first(npix) == npix[1] = 0

\* "np.any(num_pixels == 0)"
AnyZero(npix) == \E r \in DOMAIN npix : npix[r] = 0

\* rows of G, IAP and IAF: (num_levels + 1)*num_bufs/2
TotChannels(L, B) == ((L + 1) * B) \div 2

\* the locals as they are after the allocations, before the first frame
Allocate(L, B, nqs, npix) ==
    LET rows == TotChannels(L, B)
        P == LET RECURSIVE S(_)
                 S(r) == IF r = 0 THEN 0 ELSE npix[r] + S(r - 1)
             IN  S(nqs)
        acc == [t \in 0 .. rows - 1 |-> [r \in 1 .. nqs |-> R(0)]]
    IN  [G |-> acc, IAP |-> acc, IAF |-> acc,
         buf |-> [l \in 0 .. L - 1 |-> [b \in 0 .. B - 1 |-> [j \in 1 .. P |-> R(0)]]],
         cts |-> [l \in 0 .. L - 1 |-> 0],
         cur |-> [l \in 0 .. L - 1 |-> 1],
         num |-> [l \in 0 .. L - 1 |-> 0],
         written |-> [l \in 0 .. L - 1 |-> <<>>],
         upd |-> [t \in 0 .. rows - 1 |-> 0],
         rowsrc |-> [t \in 0 .. rows - 1 |-> {}],
         wslots |-> [l \in 0 .. L - 1 |-> <<>>],
         owner |-> [l \in 0 .. L - 1 |-> [b \in 0 .. B - 1 |-> 0]],
         calls |-> <<>>, updates |-> <<>>, iters |-> <<>>]

NoLocals ==
    [G |-> Unset, IAP |-> Unset, IAF |-> Unset, buf |-> Unset, cts |-> Unset,
     cur |-> Unset, num |-> Unset, written |-> Unset, upd |-> Unset,
     wslots |-> Unset, owner |-> Unset, calls |-> Unset, updates |-> Unset,
     iters |-> Unset, rowsrc |-> Unset]

NoRoi == [ok |-> FALSE, q_inds |-> Unset, num_qs |-> 0, num_pixels |-> Unset,
          pixel_list |-> Unset]

\* auto_corr from its entry to the head of the for loop
Setup(L, B, ind, frame_shape, m) ==
    IF OddBufs(B)
    THEN [pc |-> "raised", err |-> "InvalidConfig", roi |-> NoRoi, st |-> NoLocals]
    ELSE IF ShapeRaises(ind.shape, frame_shape)
    THEN [pc |-> "raised", err |-> "ShapeMismatch", roi |-> NoRoi, st |-> NoLocals]
    ELSE IF m.given
    \* "roi_inds = ma(indices)": ma is the module numpy.ma, not callable
    THEN [pc |-> "raised", err |-> "TypeError", roi |-> NoRoi, st |-> NoLocals]
    ELSE LET info == _get_roi_info(ind)
         IN  IF ~info.ok
             THEN [pc |-> "raised", err |-> "EmptyMax", roi |-> NoRoi, st |-> NoLocals]
             ELSE IF AnyZero(info.num_pixels)
             THEN [pc |-> "raised", err |-> "EmptyROI", roi |-> info, st |-> NoLocals]
             ELSE [pc |-> "loop", err |-> "", roi |-> info,
                   st |-> Allocate(L, B, info.num_qs, info.num_pixels)]

\* mutant: the level-0 cursor advances by two
NextCur0_skip(c, B) == (2 + c) % B

\* "cur[0] = (1 + cur[0]) % num_bufs"
NextCur0(c, B) == (1 + c) % B

\* mutant: the cursor of a level above 0 moves backwards
NextCur_back(c, B) == 1 + ((c - 2) % B)

\* "cur[level] = 1 + cur[level]%num_bufs"
NextCur(c, B) == 1 + (c % B)

\* mutant: prev is the slot just written, not the one before it
Prev_same(c, B) == 1 + ((c - 1) % B)

\* "prev = 1 + (cur[level - 1] - 2)%num_bufs"
Prev(c, B) == 1 + ((c - 2) % B)

\* mutant: no level above 0 is ever examined
Processing_never(level, L) == FALSE

\* "processing": whether the while loop makes a pass at this level
\* ("if num_levels > 1" before the loop, "if level<num_levels" inside it)
Processing(level, L) == level < L

\* mutant: the flag is left as it was found
NextCts_keep(f) == f

\* mutant: the flag is never cleared
NextCts_stuck(f) == 1

\* the flag a level is left with when a value arrives and the flag is f
\* ("cts[level] = 0" when it was set, "cts[level] = 1" when it was not)
NextCts(f) == IF f # 0 THEN 0 ELSE 1

RECURSIVE Propagate(_, _, _, _, _, _, _)
\* one pass of "while processing is True" at this level, and the passes after it
Propagate(st, qinds, nqs, L, B, npix, level) ==
    IF st.cts[level] # 0
    THEN LET prev == Prev(st.cur[level - 1], B)
             c == NextCur(st.cur[level], B)
             v == VAvg(st.buf[level - 1][prev - 1],
                       st.buf[level - 1][PyIndex(st.cur[level - 1] - 1, B)])
             st1 == [st EXCEPT !.cur[level] = c,
                               !.buf[level][c - 1] = v,
                               !.written[level] = Append(@, v),
                               !.wslots[level] = Append(@, c - 1),
                               !.owner[level][c - 1] = st.num[level] + 1,
                               !.iters = Append(@, [level |-> level, found |-> st.cts[level]]),
                               !.cts[level] = NextCts(@)]
             st2 == _process(st1, qinds, nqs, B, npix, level, c - 1)
         IN  IF Processing(level + 1, L)
             THEN Propagate(st2, qinds, nqs, L, B, npix, level + 1)
             ELSE st2
    ELSE [st EXCEPT !.cts[level] = NextCts(@),
                    !.iters = Append(@, [level |-> level, found |-> st.cts[level]])]

\* "(np.ravel(img))[pixel_list]" raises IndexError on an index past the frame
OutOfFrame(img, plist) == \E j \in 1 .. Len(plist) : plist[j] >= Len(img)

\* "(np.ravel(img))[pixel_list]"
Extract(img, plist) == [j \in 1 .. Len(plist) |-> R(img[plist[j] + 1])]

\* one iteration of "for n, img in enumerate(img_stack)"
FrameStep(st, qinds, nqs, L, B, npix, plist, img) ==
    LET c == NextCur0(st.cur[0], B)
        v == Extract(img, plist)
        st1 == [st EXCEPT !.cur[0] = c,
                          !.buf[0][PyIndex(c - 1, B)] = v,
                          !.written[0] = Append(@, v),
                          !.wslots[0] = Append(@, PyIndex(c - 1, B)),
                          !.owner[0][PyIndex(c - 1, B)] = st.num[0] + 1,
                          !.calls = <<>>, !.updates = <<>>, !.iters = <<>>]
        st2 == _process(st1, qinds, nqs, B, npix, 0, c - 1)
    IN  IF Processing(1, L) THEN Propagate(st2, qinds, nqs, L, B, npix, 1) ELSE st2

\* "g2 = (G[: g_max] / (IAP[: g_max] * IAF[: g_max]))", g_max = IAP.shape[0]
Normalize(g, iap, iaf) ==
    LET g_max == Cardinality(DOMAIN iap)
    IN  [t \in 0 .. g_max - 1 |->
            [r \in DOMAIN g[t] |-> RDiv(g[t][r], RMul(iap[t][r], iaf[t][r]))]]

\* core.multi_tau_lags(num_levels, num_bufs)[1]: the delay of every tau slot
multi_tau_lags(L, B) ==
    [t \in 0 .. TotChannels(L, B) - 1 |->
        IF t < B THEN t
        ELSE LET level == (t - (B \div 2)) \div (B \div 2)
                 i == t - ((level * B) \div 2)
             IN  i * Pow2(level)]

\* "lag_steps[:g2.shape[0]]"
Truncate(a, len) == [t \in 0 .. Min(len, Cardinality(DOMAIN a)) - 1 |-> a[t]]

(* ------------------------------ actions -------------------------------- *)
TypeOK == pc \in {"idle", "loop", "done", "raised"}

\* no call is in progress: the argument variables hold placeholders that
\* Call overwrites, and no local exists
Init ==
    /\ pc = "idle" /\ err = ""
    /\ num_levels = 1 /\ num_bufs = 2
    /\ indices = [shape |-> <<1, 2>>, data |-> <<1, 1>>]
    /\ img_shape = <<1, 2>> /\ mask = NoMask /\ pattern = <<>>
    /\ q_inds = Unset /\ num_qs = 0 /\ num_pixels = Unset /\ pixel_list = Unset
    /\ G = Unset /\ IAP = Unset /\ IAF = Unset /\ buf = Unset
    /\ cts = Unset /\ cur = Unset /\ num = Unset
    /\ n = 0 /\ g2 = Unset /\ lag_steps = Unset
    /\ written = Unset /\ upd = Unset /\ wslots = Unset /\ owner = Unset
    /\ calls = Unset /\ updates = Unset /\ iters = Unset /\ rowsrc = Unset

SetLocals(st) ==
    /\ G' = st.G /\ IAP' = st.IAP /\ IAF' = st.IAF /\ buf' = st.buf
    /\ cts' = st.cts /\ cur' = st.cur /\ num' = st.num
    /\ written' = st.written /\ upd' = st.upd
    /\ wslots' = st.wslots /\ owner' = st.owner
    /\ calls' = st.calls /\ updates' = st.updates /\ iters' = st.iters
    /\ rowsrc' = st.rowsrc

Locals ==
    [G |-> G, IAP |-> IAP, IAF |-> IAF, buf |-> buf, cts |-> cts, cur |-> cur,
     num |-> num, written |-> written, upd |-> upd, wslots |-> wslots,
     owner |-> owner, calls |-> calls, updates |-> updates, iters |-> iters,
     rowsrc |-> rowsrc]

\* a call of auto_corr, up to the head of the for loop or to the exception
Call ==
    /\ pc = "idle"
    /\ \E L \in 1 .. MaxLevels, B \in 1 .. MaxBufs, ind \in Grids,
          fs \in FrameShapes, pat \in {<<>>} \cup Patterns :
         \E m \in Masks(ind) :
           LET s == Setup(L, B, ind, fs, m)
           IN  /\ pat = <<>> => fs = ind.shape
               /\ num_levels' = L /\ num_bufs' = B /\ indices' = ind
               /\ img_shape' = fs /\ mask' = m /\ pattern' = pat
               /\ pc' = s.pc /\ err' = s.err
               /\ q_inds' = s.roi.q_inds /\ num_qs' = s.roi.num_qs
               /\ num_pixels' = s.roi.num_pixels
               /\ pixel_list' = s.roi.pixel_list
               /\ SetLocals(s.st)
               /\ n' = 0 /\ g2' = Unset /\ lag_steps' = Unset

\* the frames the stack may hold next
NextFrames ==
    IF pattern = <<>> THEN FreeFrames(img_shape)
    ELSE {PatternFrame(img_shape, pattern, n)}

FrameLimit == IF pattern = <<>> THEN MaxFrames ELSE MaxPatternFrames

\* one iteration of the for loop, with every level it propagates to
Frame ==
    /\ pc = "loop" /\ n < FrameLimit
    /\ \E img \in NextFrames :
         IF OutOfFrame(img, pixel_list)
         THEN /\ pc' = "raised" /\ err' = "IndexError"
              /\ cur' = [cur EXCEPT ![0] = NextCur0(@, num_bufs)]
              /\ UNCHANGED <<G, IAP, IAF, buf, cts, num, history, n>>
         ELSE /\ SetLocals(FrameStep(Locals, q_inds, num_qs, num_levels,
                                     num_bufs, num_pixels, pixel_list, img))
              /\ n' = n + 1
              /\ UNCHANGED <<pc, err>>
    /\ UNCHANGED <<args, roi, g2, lag_steps>>

\* the stack is exhausted: normalisation and return
Finalize ==
    /\ pc = "loop" /\ n >= 1
    /\ g2' = Normalize(G, IAP, IAF)
    /\ lag_steps' = Truncate(multi_tau_lags(num_levels, num_bufs),
                             Cardinality(DOMAIN Normalize(G, IAP, IAF)))
    /\ pc' = "done"
    /\ UNCHANGED <<err, args, roi, locals, n, history>>

\* control is back with the caller, by return or by exception: the call's
\* locals are gone, and nothing of the module outlives the call
Return ==
    /\ pc \in {"done", "raised"}
    /\ pc' = "idle" /\ err' = ""
    /\ q_inds' = Unset /\ num_qs' = 0 /\ num_pixels' = Unset /\ pixel_list' = Unset
    /\ SetLocals(NoLocals)
    /\ n' = 0 /\ g2' = Unset /\ lag_steps' = Unset
    /\ num_levels' = 1 /\ num_bufs' = 2
    /\ indices' = [shape |-> <<1, 2>>, data |-> <<1, 1>>]
    /\ img_shape' = <<1, 2>> /\ mask' = NoMask /\ pattern' = <<>>

Next == Call \/ Frame \/ Finalize \/ Return

Spec == Init /\ [][Next]_vars

\* a step of Frame as n and pc show it: the frame is processed, or reading
\* it raises. Within Next these are exactly the steps of Frame, and the
\* action is enabled exactly when Frame is
FrameTaken ==
    /\ pc = "loop" /\ n < FrameLimit
    /\ (n' = n + 1 /\ pc' = pc) \/ (n' = n /\ pc' = "raised")

\* a step of Finalize as pc shows it; enabled exactly when Finalize is
Finalized == pc = "loop" /\ n >= 1 /\ pc' = "done"

\* the for loop goes on to the next frame while the stack has one, and the
\* code after the loop runs once the stack is exhausted: weak fairness of
\* Frame and of Finalize
FairSpec == Spec /\ WF_<<n, pc>>(FrameTaken) /\ WF_pc(Finalized)

(* ------------------------------ claims --------------------------------- *)
Running == pc \in {"loop", "done"}

\* C1: after n frames the arrival counter of every level k equals
\* floor(n / 2^k); in particular num[1] = num_bufs after 2*num_bufs frames.
C1_ArrivalCounters ==
    Running =>
        /\ \A k \in 0 .. num_levels - 1 : num[k] = n \div Pow2(k)
        /\ (num_levels >= 2 /\ n = 2 * num_bufs) => num[1] = num_bufs

C1_Witness ==
    /\ pc = "loop" /\ num_levels = 3 /\ num_bufs = 4 /\ n = 2 * num_bufs
    /\ num[1] = num_bufs /\ num[2] = 2

\* C2: the j-th value written to a level k >= 1 is the elementwise average of
\* the (2j-1)-th and the 2j-th value written to level k-1, so every value of
\* level k-1 enters at most one value of level k, and the j-th level-1 value
\* is the mean of frames 2j-1 and 2j.
C2_FreshPairAverage ==
    Running =>
        \A k \in 1 .. num_levels - 1 :
            \A j \in 1 .. Len(written[k]) :
                /\ 2 * j <= Len(written[k - 1])
                /\ written[k][j] =
                       [p \in 1 .. Len(pixel_list) |->
                           RDiv(RAdd(written[k - 1][2 * j - 1][p],
                                     written[k - 1][2 * j][p]), R(2))]

C2_Witness ==
    /\ pc = "loop" /\ num_levels = 3 /\ Len(written[2]) >= 1
    /\ written[0][3] # written[0][4]
    /\ written[1][1] # written[1][2]
    /\ written[2][1] # written[1][2]

\* every extracted pixel of every frame so far has the value c
ConstantStream(c) ==
    \A a \in 1 .. Len(written[0]) :
        \A p \in 1 .. Len(written[0][a]) : written[0][a][p] = R(c)

\* C3: a stream of N >= num_bufs * 2^(num_levels-1) frames of constant value
\* c > 0 returns g2 = 1 in every row and ROI: every accumulator row is
\* populated, with G = c*c, IAP = c and IAF = c.
C3_ConstantStreamGivesOne ==
    pc = "done" =>
        \A c \in PixelValues :
            (ConstantStream(c) /\ n >= num_bufs * Pow2(num_levels - 1)) =>
                \A t \in DOMAIN g2 : \A r \in 1 .. num_qs :
                    /\ upd[t] > 0
                    /\ G[t][r] = R(c * c) /\ IAP[t][r] = R(c) /\ IAF[t][r] = R(c)
                    /\ g2[t][r] = R(1)

C3_Witness ==
    /\ pc = "done" /\ num_levels = 3 /\ num_bufs = 4 /\ n = 16 /\ num_qs = 2
    /\ pattern = <<2>> /\ ConstantStream(2)
    /\ \A t \in DOMAIN g2 : g2[t][1] = R(1) /\ G[t][2] = R(4)

RECURSIVE PixelSum(_, _, _, _, _)
\* over the pixels p <= k of ROI r: the sum of past*future (G), past (IAP)
\* or future (IAF)
PixelSum(kind, past, future, r, k) ==
    IF k = 0 THEN R(0)
    ELSE IF q_inds[k] # r THEN PixelSum(kind, past, future, r, k - 1)
    ELSE RAdd(PixelSum(kind, past, future, r, k - 1),
              IF kind = "G" THEN RMul(past[k], future[k])
              ELSE IF kind = "IAP" THEN past[k] ELSE future[k])

\* the contribution of arrival a of level l to offset i, for ROI r
Contribution(kind, l, i, a, r) ==
    RDiv(PixelSum(kind, written[l][a - i], written[l][a], r, Len(q_inds)),
         R(num_pixels[r]))

RECURSIVE ContributionSum(_, _, _, _, _)
\* the sum of the contributions of arrivals i+1 .. a
ContributionSum(kind, l, i, a, r) ==
    IF a <= i THEN R(0)
    ELSE RAdd(ContributionSum(kind, l, i, a - 1, r), Contribution(kind, l, i, a, r))

\* the arithmetic mean of the contributions of all arrivals with i predecessors
PlainMean(kind, l, i) ==
    [r \in 1 .. num_qs |->
        RDiv(ContributionSum(kind, l, i, num[l], r), R(num[l] - i))]

\* C4: the accumulator row level*num_bufs/2 + i holds the plain arithmetic
\* mean of the per-ROI contributions of all arrivals at that level with at
\* least i predecessors (G of IP*IF, IAP of IP, IAF of IF); hence the returned
\* g2 at level 0, lag 0 is mean(I^2)/mean(I)^2 per ROI.
C4_RowsAreArithmeticMeans ==
    Running =>
        /\ \A l \in 0 .. num_levels - 1 : \A i \in 0 .. num_bufs - 1 :
              ((l = 0 \/ 2 * i >= num_bufs) /\ num[l] > i) =>
                  LET t == (l * num_bufs) \div 2 + i
                  IN  /\ G[t] = PlainMean("G", l, i)
                      /\ IAP[t] = PlainMean("IAP", l, i)
                      /\ IAF[t] = PlainMean("IAF", l, i)
        /\ pc = "done" =>
              \A r \in 1 .. num_qs :
                  g2[0][r] = RDiv(PlainMean("G", 0, 0)[r],
                                  RMul(PlainMean("IAP", 0, 0)[r],
                                       PlainMean("IAF", 0, 0)[r]))

\* frames all-1, all-2, all-1, all-2 with num_levels = 1, num_bufs = 4
C4_Witness ==
    /\ pc = "done" /\ num_levels = 1 /\ num_bufs = 4 /\ n = 4 /\ num_qs = 1
    /\ pattern = <<1, 2>> /\ img_shape = indices.shape
    /\ written[0] = << <<R(1), R(1)>>, <<R(2), R(2)>>, <<R(1), R(1)>>, <<R(2), R(2)>> >>
    /\ G[0][1] = <<5, 2>> /\ IAP[0][1] = <<3, 2>> /\ IAF[0][1] = <<3, 2>>
    /\ g2[0][1] = <<10, 9>>

\* the rows of the returned g2, and the entries of the returned lag_steps
Rows(a) == Cardinality(DOMAIN a)

\* C5 (as claimed): the returned g2 holds only rows that received an
\* accumulator update during the run, and lag_steps has one entry per row.
C5_TruncatedToPopulatedRows ==
    pc = "done" =>
        /\ \A t \in DOMAIN g2 : upd[t] > 0
        /\ Rows(lag_steps) = Rows(g2)

\* C6 (as claimed): the returned g2 has at most num_levels rows.
C6_AtMostNumLevelsRows == pc = "done" => Rows(g2) <= num_levels

\* no buffer, counter or accumulator exists
NothingAllocated ==
    /\ G = Unset /\ IAP = Unset /\ IAF = Unset /\ buf = Unset
    /\ cts = Unset /\ cur = Unset /\ num = Unset
    /\ written = Unset /\ upd = Unset

\* the state a first call starts from
Pristine ==
    /\ err = "" /\ n = 0 /\ g2 = Unset /\ lag_steps = Unset
    /\ q_inds = Unset /\ num_qs = 0 /\ num_pixels = Unset /\ pixel_list = Unset
    /\ NothingAllocated

\* C7: a call with an odd num_bufs fails with InvalidConfig before any frame
\* is consumed and before any buffer, counter or accumulator is created, and
\* whenever a call can start (also after a failed one) the state is the
\* state a first call starts from.
C7_OddBufsRejectedFirst ==
    /\ (pc # "idle" /\ num_bufs % 2 = 1) =>
          /\ pc = "raised" /\ err = "InvalidConfig"
          /\ n = 0 /\ NothingAllocated
          /\ q_inds = Unset /\ pixel_list = Unset /\ num_pixels = Unset
    /\ pc = "idle" => Pristine

C7_Witness ==
    /\ pc = "raised" /\ err = "InvalidConfig" /\ num_bufs = 3
    /\ indices.data = <<0, 0>> /\ mask.given /\ img_shape # indices.shape

\* some label r in 1..(largest label of the grid) is on no cell of the grid
HasEmptyRoi(ind) ==
    \E r \in 1 .. MaxLabel :
        /\ \E k \in DOMAIN ind.data : ind.data[k] > r
        /\ \A k \in DOMAIN ind.data : ind.data[k] # r

\* a grid the ROI indexer accepts: some cell is labelled, no ROI is empty
ValidGrid(ind) ==
    /\ \E k \in DOMAIN ind.data : ind.data[k] > 0
    /\ ~HasEmptyRoi(ind)

\* some accumulator row received an update
SomeUpdate == upd # Unset /\ \E t \in DOMAIN upd : upd[t] > 0

\* C8 (as claimed): in a call whose other arguments are valid, a label grid
\* whose shape differs from the frames' shape makes the call fail with
\* ShapeMismatch and no accumulator is updated; with equal shapes
\* ShapeMismatch is not raised.
C8_ShapeMismatchRejected ==
    (pc # "idle" /\ num_bufs % 2 = 0 /\ ~mask.given /\ ValidGrid(indices)) =>
        /\ indices.shape # img_shape =>
              (pc = "raised" /\ err = "ShapeMismatch" /\ ~SomeUpdate)
        /\ indices.shape = img_shape => err # "ShapeMismatch"

\* C9: in a call that passes the checks before ROI indexing (even num_bufs,
\* no mask), a grid with a label r in 1..num_rois on no pixel fails with
\* EmptyROI after ROI indexing and before the first frame: no buffer exists,
\* no slot is written and no accumulator is updated.
C9_EmptyRoiRejected ==
    (pc # "idle" /\ num_bufs % 2 = 0 /\ ~mask.given /\ HasEmptyRoi(indices)) =>
        /\ pc = "raised" /\ err = "EmptyROI"
        /\ n = 0 /\ NothingAllocated
        /\ num_qs > 0 /\ \E r \in 1 .. num_qs : num_pixels[r] = 0

C9_Witness ==
    /\ pc = "raised" /\ err = "EmptyROI"
    /\ indices.data = <<1, 3>> /\ num_qs = 3 /\ num_pixels = <<1, 0, 1>>

\* the flat indices, in row-major order, of the cells with a label > 0 that
\* the mask does not exclude
MaskedPixelList(ind, m) ==
    LET Kept(k) == ind.data[k] > 0 /\ ~m.data[k]
        cells == SelectSeq([k \in 1 .. Len(ind.data) |-> k], Kept)
    IN  [j \in 1 .. Len(cells) |-> cells[j] - 1]

\* C10 (as claimed): with an exclusion mask (and otherwise valid arguments)
\* the run proceeds, and the pixel list is the row-major list of the labelled
\* cells the mask does not exclude.
C10_MaskHonoured ==
    (pc # "idle" /\ num_bufs % 2 = 0 /\ mask.given /\ ValidGrid(indices)
        /\ img_shape = indices.shape) =>
        /\ err # "TypeError"
        /\ Running => pixel_list = MaskedPixelList(indices, mask)

\* the largest label of a grid with some positive label
MaxLabelOf(ind) ==
    CHOOSE m \in 0 .. MaxLabel :
        /\ \E k \in DOMAIN ind.data : ind.data[k] = m
        /\ \A k \in DOMAIN ind.data : ind.data[k] <= m

\* the number of cells of the grid labelled r
CellsOf(ind, r) == Cardinality({k \in DOMAIN ind.data : ind.data[k] = r})

\* the call reached ROI indexing on a grid whose positive labels are not
\* contiguous from 1
GapGridIndexed ==
    pc # "idle" /\ num_bufs % 2 = 0 /\ ~mask.given /\ HasEmptyRoi(indices)

\* C11 (as claimed): a label grid whose positive labels are not contiguous
\* from 1 is accepted: num_rois is the largest label and the call is not
\* rejected because of the gap.
C11_GapLabelsAccepted ==
    GapGridIndexed =>
        /\ num_qs = MaxLabelOf(indices)
        /\ ~(pc = "raised" /\ err = "EmptyROI")

\* C11 (amended): a label grid whose positive labels are not contiguous from
\* 1 is rejected: num_rois is the largest label, each label of 1..num_rois
\* gets the count of its cells, a missing label counting as an ROI of zero
\* pixels, and the call raises EmptyROI with no frame processed and no result.
C11_GapLabelsRejected ==
    GapGridIndexed =>
        /\ num_qs = MaxLabelOf(indices)
        /\ num_pixels = [r \in 1 .. num_qs |-> CellsOf(indices, r)]
        /\ pc = "raised" /\ err = "EmptyROI"
        /\ n = 0 /\ g2 = Unset /\ lag_steps = Unset

C11_Witness ==
    /\ pc = "raised" /\ err = "EmptyROI"
    /\ indices.data = <<0, 2>> /\ num_qs = 2 /\ num_pixels = <<0, 1>>

\* the logs describe frame n, which the loop has processed completely
FrameLogged == Running /\ n >= 1

\* the log entries of the accumulator updates made at a level
UpdatesAt(l) == {j \in DOMAIN updates : updates[j].level = l}

\* the offsets a level updated during the last frame
OffsetsAt(l) == {updates[j].i : j \in UpdatesAt(l)}

\* the levels on which _process was invoked during the last frame
InvokedLevels == {calls[j].level : j \in DOMAIN calls}

\* C12: in an invocation of _process on a level that has received a values,
\* the one just written included, the offsets updated are exactly
\* 0..min(a, num_bufs)-1 at level 0 and num_bufs/2..min(a, num_bufs)-1 at a
\* level > 0, each once; a level > 0 with a <= num_bufs/2 updates no row; and
\* no update is made outside an invocation.
C12_OffsetRange ==
    FrameLogged =>
        /\ \A l \in InvokedLevels :
              LET a == Len(written[l])
                  lo == IF l = 0 THEN 0 ELSE num_bufs \div 2
              IN  /\ OffsetsAt(l) = lo .. (Min(a, num_bufs) - 1)
                  /\ Cardinality(UpdatesAt(l)) = Cardinality(OffsetsAt(l))
                  /\ (l > 0 /\ a <= num_bufs \div 2) => UpdatesAt(l) = {}
        /\ \A j \in DOMAIN updates : updates[j].level \in InvokedLevels

\* the third level-1 value of a run with four buffers updates offset 2 alone,
\* while level 0 updates all four offsets
C12_Witness ==
    /\ FrameLogged /\ num_bufs = 4 /\ num_levels >= 2
    /\ 1 \in InvokedLevels /\ Len(written[1]) = 3
    /\ OffsetsAt(1) = {2} /\ OffsetsAt(0) = 0 .. 3

\* C13 (as claimed): an invocation of _process changes only G, IAP and IAF:
\* the buffer, the cursors, the half-full flags and the arrival counters are
\* after the call what they were before it.
C13_OnlyAccumulatorsChange ==
    FrameLogged => \A j \in DOMAIN calls : calls[j].after = calls[j].before

\* C13 (amended): an invocation of _process changes only G, IAP, IAF and the
\* arrival counter of its own level, which it increments by one: the buffer,
\* the cursors, the half-full flags and the other levels' arrival counters
\* are after the call what they were before it.
C13_AccumulatorsAndOwnCounter ==
    FrameLogged =>
        \A j \in DOMAIN calls :
            LET c == calls[j]
            IN  /\ c.after.buf = c.before.buf
                /\ c.after.cur = c.before.cur
                /\ c.after.cts = c.before.cts
                /\ c.after.num = [c.before.num EXCEPT ![c.level] = @ + 1]

\* an invocation on level 1 that found one arrival counted and left two, with
\* level 0's counter untouched
C13_Witness ==
    /\ FrameLogged /\ num_levels >= 2
    /\ \E j \in DOMAIN calls :
          /\ calls[j].level = 1
          /\ calls[j].before.num[1] = 1 /\ calls[j].after.num[1] = 2
          /\ calls[j].after.num[0] = calls[j].before.num[0]
          /\ calls[j].after.buf = calls[j].before.buf

\* C14: at every level each arrival is written to the slot that cyclically
\* follows the slot of the level's previous arrival (mod num_bufs), the slot
\* addressed is one of the num_bufs slots of the level, it is the slot the
\* level's cursor designates, and any num_bufs consecutive arrivals of a
\* level occupy distinct slots.
C14_CyclicSlots ==
    Running =>
        \A l \in 0 .. num_levels - 1 :
            LET s == wslots[l]
            IN  /\ \A j \in DOMAIN s : s[j] \in 0 .. num_bufs - 1
                /\ \A j \in DOMAIN s : j > 1 => s[j] = (s[j - 1] + 1) % num_bufs
                /\ \A j, k \in DOMAIN s :
                      (j < k /\ k - j < num_bufs) => s[j] # s[k]
                /\ Len(s) > 0 => s[Len(s)] = (cur[l] - 1) % num_bufs

\* with four buffers, level 1 has wrapped around (its fifth value is in the
\* slot of its first) and level 0 has used slots 1, 2, 3, 0 in that order
C14_Witness ==
    /\ pc = "loop" /\ num_bufs = 4 /\ num_levels >= 2
    /\ Len(wslots[1]) = 5 /\ wslots[1][5] = wslots[1][1]
    /\ SubSeq(wslots[0], 1, 4) = <<1, 2, 3, 0>>

\* the invocation of _process on level l during the last frame
CallAt(l) == calls[CHOOSE j \in DOMAIN calls : calls[j].level = l]

\* C15: after each frame the flag of a level k >= 1 is set exactly when level
\* k-1 has received an odd number of values. Within a frame the levels are
\* examined upward from 1; the propagation stops at the first level found
\* with its flag unset, which gets the flag set and neither a value nor an
\* invocation; a level found with its flag set has the flag cleared and a
\* value written before _process is invoked on it, and all of that before
\* the next level is examined.
C15_HalfFullFlags ==
    FrameLogged =>
        /\ \A k \in 1 .. num_levels - 1 :
              (cts[k] # 0) <=> (Len(written[k - 1]) % 2 = 1)
        /\ \A j \in DOMAIN iters :
              /\ iters[j].level = j
              /\ j < Len(iters) => iters[j].found # 0
              /\ iters[j].found = 0 => (cts[j] = 1 /\ j \notin InvokedLevels)
              /\ iters[j].found # 0 =>
                    /\ cts[j] = 0 /\ j \in InvokedLevels
                    /\ CallAt(j).before.cts[j] = 0
                    /\ CallAt(j).before.buf[j][wslots[j][Len(wslots[j])]]
                           = written[j][Len(written[j])]
                    /\ j + 1 < num_levels =>
                          /\ CallAt(j).after.cts[j + 1] = iters[j + 1].found
                          /\ CallAt(j).after.buf[j + 1] = CallAt(j).before.buf[j + 1]
        /\ (Len(iters) > 0 /\ iters[Len(iters)].found # 0) =>
              Len(iters) = num_levels - 1
        /\ num_levels > 1 => Len(iters) >= 1
        /\ InvokedLevels = {0} \cup {j \in DOMAIN iters : iters[j].found # 0}

\* a frame of a three-level run whose propagation passed level 1, found its
\* flag set, and stopped at level 2, found unset
C15_Witness ==
    /\ FrameLogged /\ num_levels = 3
    /\ Len(iters) = 2 /\ iters[1].found # 0 /\ iters[2].found = 0
    /\ cts[1] = 0 /\ cts[2] = 1 /\ InvokedLevels = {0, 1}

\* what C16 says of every state: the passes of the while loop, the levels
\* they touch, and the propagation finished between two frames
C16_Bounded ==
    Running =>
        /\ Len(iters) <= num_levels - 1
        /\ \A j \in DOMAIN iters : iters[j].level \in 1 .. num_levels - 1
        /\ InvokedLevels \subseteq 0 .. num_levels - 1
        /\ DOMAIN buf = 0 .. num_levels - 1 /\ DOMAIN cts = 0 .. num_levels - 1
        /\ DOMAIN cur = 0 .. num_levels - 1 /\ DOMAIN num = 0 .. num_levels - 1
        /\ (num_levels = 1 /\ n >= 1) => (iters = <<>> /\ InvokedLevels = {0})
        /\ \A k \in 0 .. num_levels - 1 : Len(written[k]) = n \div Pow2(k)

\* C16: the while loop makes at most num_levels - 1 passes per frame and
\* touches no level >= num_levels (none at all above level 0 when num_levels
\* is 1); when a frame is taken, all the propagation of the frames before it
\* is complete (level k holds floor(n / 2^k) values); and a call that
\* entered the frame loop reaches the finalisation, or fails, after the
\* finitely many frames of its stack.
C16_PropagationTerminates ==
    /\ []C16_Bounded
    /\ (pc = "loop") ~> (pc \in {"done", "raised"})

\* a finalised three-level run whose last frame propagated through both
\* upper levels
C16_Witness ==
    /\ pc = "done" /\ num_levels = 3 /\ n = 4
    /\ Len(iters) = 2 /\ iters[2].found # 0 /\ InvokedLevels = {0, 1, 2}

\* the slot a level's latest value was written to
LastSlot(l) == wslots[l][Len(wslots[l])]

\* C17: for every offset i an invocation of _process correlates at a level
\* that has received a values, the lag-partner slot is (current slot - i) mod
\* num_bufs and holds the value written exactly i arrivals earlier at that
\* level (the (a-i)-th): it is never a slot still holding its initial zeros,
\* nor one whose value has been overwritten by a later arrival.
C17_LagPartner ==
    FrameLogged =>
        \A j \in DOMAIN updates :
            LET u == updates[j]
                a == Len(written[u.level])
            IN  /\ u.delay_no = (LastSlot(u.level) - u.i) % num_bufs
                /\ u.source >= 1
                /\ u.source = a - u.i
                /\ buf[u.level][u.delay_no] = written[u.level][a - u.i]

\* with four buffers, the sixth value of level 1 is correlated at offset 3
\* with the third, which sits in a slot that wrapped around and had held the
\* level's first values before
C17_Witness ==
    /\ FrameLogged /\ num_bufs = 4 /\ num_levels >= 2
    /\ \E j \in DOMAIN updates :
          /\ updates[j].level = 1 /\ updates[j].i = 3
          /\ Len(written[1]) = 6 /\ updates[j].source = 3
          /\ updates[j].delay_no > LastSlot(1)

\* the accumulator rows the claim gives to a level
RowsOf(l, B) ==
    IF l = 0 THEN 0 .. B - 1
    ELSE ((l + 1) * B) \div 2 .. ((l + 2) * B) \div 2 - 1

\* C18: every accumulator row index used is level*num_bufs/2 + i and lies in
\* 0..(num_levels+1)*num_bufs/2 - 1; over the whole run each row is updated
\* by one (level, offset) pair only; level 0 owns rows 0..num_bufs-1 and a
\* level k >= 1 owns rows (k+1)*num_bufs/2..(k+2)*num_bufs/2 - 1.
C18_RowOwnership ==
    Running =>
        /\ \A j \in DOMAIN updates :
              LET u == updates[j]
              IN  /\ u.t_index = (u.level * num_bufs) \div 2 + u.i
                  /\ u.t_index \in 0 .. ((num_levels + 1) * num_bufs) \div 2 - 1
                  /\ u.t_index \in RowsOf(u.level, num_bufs)
        /\ DOMAIN rowsrc = 0 .. ((num_levels + 1) * num_bufs) \div 2 - 1
        /\ \A t \in DOMAIN rowsrc :
              /\ Cardinality(rowsrc[t]) <= 1
              /\ \A p \in rowsrc[t] :
                    /\ t \in RowsOf(p[1], num_bufs)
                    /\ t = (p[1] * num_bufs) \div 2 + p[2]
                    /\ upd[t] >= 1
              /\ rowsrc[t] = {} => upd[t] = 0

\* three levels of four buffers after 16 frames: the last row, 7, has been
\* updated by level 2 at offset 3 alone, rows 3 and 4 by level 0 at offset 3
\* and by level 1 at offset 2
C18_Witness ==
    /\ Running /\ num_levels = 3 /\ num_bufs = 4
    /\ rowsrc[7] = {<<2, 3>>} /\ rowsrc[3] = {<<0, 3>>} /\ rowsrc[4] = {<<1, 2>>}

\* C19: at every accumulator update the divisor of the running average,
\* (arrivals at the level) - i, is at least 1 and equals the number of
\* updates the row has received, the current one included.
C19_DivisorIsUpdateCount ==
    FrameLogged =>
        \A j \in DOMAIN updates :
            LET u == updates[j]
            IN  /\ u.divisor >= 1
                /\ u.divisor = Len(written[u.level]) - u.i
                /\ u.divisor = u.count
                /\ u.count = upd[u.t_index]

\* with four buffers, the fourth value of level 1 updates offset 2 for the
\* second time and offset 3 for the first time
C19_Witness ==
    /\ FrameLogged /\ num_bufs = 4 /\ num_levels >= 2 /\ Len(written[1]) = 4
    /\ \E j, k \in DOMAIN updates :
          /\ updates[j].level = 1 /\ updates[j].i = 2
          /\ updates[j].divisor = 2 /\ updates[j].count = 2
          /\ updates[k].level = 1 /\ updates[k].i = 3
          /\ updates[k].divisor = 1 /\ updates[k].count = 1

====
